---- MODULE Spec2Model ----
(***************************************************************************)
(* Model of the network stress tester's run controller, worker pool and    *)
(* shared statistics (src/network_stress_tester.py, the "root" variant,    *)
(* and src/network_stress_tester_noroot.py, the "noroot" variant).         *)
(*                                                                         *)
(* Threads: the controlling thread (main -> start_test -> stop_test), one  *)
(* worker thread per (test type, thread index) pair, one monitor thread.   *)
(* The clock `now` counts whole seconds; a pause shorter than one second   *)
(* does not advance it.  A step that is not a blocking call takes no time. *)
(* `stats[k] += n` is a read of the dictionary entry followed by a store   *)
(* (no lock is held), so it is two steps of the worker.                    *)
(***************************************************************************)
EXTENDS Integers, Sequences, FiniteSets, TLC

VARIABLES
    cfg,        \* StressTestConfig plus the environment (variant, SCAPY_AVAILABLE, validity of target_ip)
    pc,         \* position of the controlling thread
    validated,  \* validate_config(config) returned True
    exit_status,\* -1 while the process lives, else the process's exit status
    answer,     \* what the operator typed at the confirmation prompt
    running,    \* self.running
    stats,      \* self.stats
    threads,    \* self.threads: the thread ids appended, in order
    wk,         \* the worker threads started, by thread id + 1
    sp,         \* start_test's spawn loop: index into test_types, i, thread_id
    jn,         \* stop_test's join loop: index into self.threads, time the current join began
    wake,       \* time at which the controller's time.sleep(duration) returns
    pending,    \* SystemExit raised in start_test's try block, re-raised after finally
    report,     \* the final report's values as stop_test read them
    mon,        \* the monitor thread
    sigs,       \* the controller positions at which SIGINT was delivered
    now,        \* clock, whole seconds
    hist,       \* history: what the claims speak about and the code does not store
    rl          \* the rate limiter of the UDP workers on a millisecond clock

vars == <<cfg, pc, validated, exit_status, answer, running, stats, threads, wk,
          sp, jn, wake, pending, report, mon, sigs, now, hist, rl>>

----------------------------------------------------------------------------
(* Bounds of the model *)

\* loop iterations a worker makes in one run
MaxAttempts == 2
\* seconds of the clock
MaxTime == 5
\* SIGINTs delivered in one run
MaxSigint == 1
\* sends that fail, in the run of the rate limiter
MaxRateErrors == 1
\* milliseconds the rate limiter is run for
RateHorizonMs == 5000
\* passes of the loop the two variants' window steps are compared over
MaxWindowPasses == 5

(* Program constants *)

MAX_THREADS == 1000
MAX_PACKET_SIZE == 65507
JOIN_TIMEOUT == 2
HTTP_TIMEOUT == 2
TCP_TIMEOUT == 1
PING_TIMEOUT == 2
MONITOR_INTERVAL == 1
SYN_PACKET_LEN == 40
ICMP_HEADER_LEN == 28
TCP_DATA_LEN == 18

----------------------------------------------------------------------------
(* Configuration and validation *)

RootTypes == <<"udp", "tcp_syn", "icmp", "mixed">>

NoRootTypes == <<"udp", "tcp_connect", "ping", "http", "mixed">>

Range(s) == {s[i] : i \in 1..Len(s)}

Config(variant, scapy, ip_ok, types, tc, size, pps, dur, verbose) ==
    [variant |-> variant, scapy |-> scapy, ip_ok |-> ip_ok, test_types |-> types,
     thread_count |-> tc, packet_size |-> size, packets_per_second |-> pps,
     duration |-> dur, verbose |-> verbose, port_ok |-> TRUE]

\* the same with a target_port outside 0..65535, which main and validate_config accept
BadPort(c) == [c EXCEPT !.port_ok = FALSE]

\* the for loop over config.test_types: False at the first entry not in valid_types
RECURSIVE TypesValidFrom(_, _, _)
TypesValidFrom(types, valid, i) ==
    IF i > Len(types) THEN TRUE
    ELSE IF types[i] \notin Range(valid) THEN FALSE
    ELSE TypesValidFrom(types, valid, i + 1)

ThreadCountBadMut(c) == c.thread_count <= 0 \/ c.thread_count >= MAX_THREADS

ThreadCountBad(c) == c.thread_count <= 0 \/ c.thread_count > MAX_THREADS

validate_config_root(c) ==
    IF ThreadCountBad(c) THEN FALSE
    ELSE IF c.packet_size < 1 \/ c.packet_size > MAX_PACKET_SIZE THEN FALSE
    ELSE IF c.packets_per_second < 0 THEN FALSE
    ELSE IF Len(c.test_types) = 0 THEN FALSE
    ELSE TypesValidFrom(c.test_types, RootTypes, 1)

validate_config_noroot(c) ==
    IF ThreadCountBad(c) THEN FALSE
    ELSE IF c.packet_size < 1 \/ c.packet_size > MAX_PACKET_SIZE THEN FALSE
    ELSE IF c.packets_per_second < 0 THEN FALSE
    ELSE IF Len(c.test_types) = 0 THEN FALSE
    ELSE TypesValidFrom(c.test_types, NoRootTypes, 1)

validate_config(c) ==
    IF c.variant = "root" THEN validate_config_root(c) ELSE validate_config_noroot(c)

----------------------------------------------------------------------------
(* One iteration of a worker's loop, as the sequence of its calls and of   *)
(* its updates of self.stats.  A call blocks for lo..hi seconds and either *)
(* returns, and the next entry follows, or leaves for one of `alts` (the   *)
(* except clause that catches it, or the branch a result code selects).    *)
(* A pass that works on a socket of its own creates it as it begins.       *)

Call(name, hi, alts) ==
    [k |-> "call", name |-> name, lo |-> 0, hi |-> hi, ms |-> 0,
     c |-> "none", amts |-> {0}, alts |-> alts, close |-> FALSE]

\* time.sleep of ms milliseconds
Sleep(ms) ==
    [k |-> "call", name |-> "sleep", lo |-> ms \div 1000, hi |-> ms \div 1000, ms |-> ms,
     c |-> "none", amts |-> {0}, alts |-> {}, close |-> FALSE]

\* self.stats[c] += a, for some a in amts
Inc(c, amts) ==
    [k |-> "inc", name |-> c, lo |-> 0, hi |-> 0, ms |-> 0,
     c |-> c, amts |-> amts, alts |-> {}, close |-> FALSE]

\* the entry op followed by sock.close(): the socket is closed when op is over
Closes(op) == [op EXCEPT !.close = TRUE]

\* a time.sleep of the rate-control statement that ends a pass of the loop
RateSleep(ms) == [Sleep(ms) EXCEPT !.name = "rate_sleep"]

\* 1.0 / packets_per_second / thread_count, in milliseconds
RateDelayMs(c) == 1000 \div (c.packets_per_second * c.thread_count)

RateDelayMut(c) ==
    IF c.packets_per_second > 0
    THEN <<RateSleep(RateDelayMs(c))>>
    ELSE <<RateSleep(10)>>

\* time.sleep(1.0 / packets_per_second / thread_count), under `if packets_per_second > 0`
RateDelay(c) ==
    IF c.packets_per_second > 0
    THEN <<RateSleep(RateDelayMs(c))>>
    ELSE <<>>

\* the same with the no-root ping and mixed workers' `else: time.sleep(0.01)`
RateDelayOrPause(c) ==
    IF c.packets_per_second > 0
    THEN <<RateSleep(RateDelayMs(c))>>
    ELSE <<RateSleep(10)>>

\* len(packet) of IP/ICMP/Raw(b'A' * (packet_size - 28)); a negative count gives b''
IcmpPacketLen(c) ==
    ICMP_HEADER_LEN + (IF c.packet_size > ICMP_HEADER_LEN THEN c.packet_size - ICMP_HEADER_LEN ELSE 0)

\* digits of random.randint(1, 10000) in the request path: 1 to 5; nine in ten
\* of the numbers have 4, and the request's length varies with them by 4 at most
PathDigits == {4}

\* len(http_request) of http_flood_worker for a target_ip of iplen characters
HttpRequestLen(digits, iplen) == 5 + digits + 11 + 6 + iplen + 2 + 37 + 21

\* len(request) of send_http_request
HttpHelperRequestLen(iplen) == 16 + 6 + iplen + 4

MinMut(a, b) == a

Min(a, b) == IF a < b THEN a ELSE b

RootScript(c, name) ==
    CASE name = "crash" -> <<Inc("errors", {1})>>
      [] name = "overflow" -> <<Inc("errors", {1})>>
      [] name = "udp" ->
            <<Call("sendto", 0, {"udp_err"}), Inc("packets_sent", {1}),
              Inc("bytes_sent", {c.packet_size})>> \o RateDelay(c)
      [] name = "udp_err" -> <<Inc("errors", {1}), Sleep(10)>>
      [] name = "tcp_syn" ->
            <<Call("send", 0, {"tcp_syn_err"}), Inc("packets_sent", {1}),
              Inc("bytes_sent", {SYN_PACKET_LEN})>> \o RateDelay(c)
      [] name = "tcp_syn_err" -> <<Inc("errors", {1}), Sleep(10)>>
      [] name = "icmp" ->
            <<Call("send", 0, {"icmp_err"}), Inc("packets_sent", {1}),
              Inc("bytes_sent", {IcmpPacketLen(c)})>> \o RateDelay(c)
      [] name = "icmp_err" -> <<Inc("errors", {1}), Sleep(10)>>
      [] name = "system_ping" ->
            <<Call("os.system", 1, {"system_ping_err"}), Inc("packets_sent", {1})>>
            \o RateDelay(c)
      [] name = "system_ping_err" -> <<Inc("errors", {1}), Sleep(100)>>
      [] name = "send_udp_packet" ->
            <<Closes(Call("sendto", 0, {"send_err"})), Inc("packets_sent", {1}),
              Inc("bytes_sent", {c.packet_size})>> \o RateDelay(c)
      [] name = "send_tcp_syn_packet" ->
            IF c.scapy
            THEN <<Call("send", 0, {"send_err"}), Inc("packets_sent", {1}),
                   Inc("bytes_sent", {SYN_PACKET_LEN})>> \o RateDelay(c)
            ELSE <<Call("return", 0, {})>> \o RateDelay(c)
      [] name = "send_icmp_packet" ->
            IF c.scapy
            THEN <<Call("send", 0, {"send_err"}), Inc("packets_sent", {1}),
                   Inc("bytes_sent", {ICMP_HEADER_LEN})>> \o RateDelay(c)
            ELSE <<Call("return", 0, {})>> \o RateDelay(c)
      [] name = "send_err" -> <<Inc("errors", {1})>> \o RateDelay(c)
      [] name = "send_nothing" -> <<Call("pass", 0, {})>> \o RateDelay(c)

NoRootScript(c, name) ==
    CASE name = "crash" -> <<Inc("errors", {1})>>
      [] name = "overflow" -> <<Inc("errors", {1})>>
      [] name = "udp" ->
            <<Call("sendto", 0, {"udp_err", "udp_again"}), Inc("packets_sent", {1}),
              Inc("bytes_sent", {c.packet_size})>> \o RateDelay(c)
      [] name = "udp_err" -> <<Inc("errors", {1}), Sleep(1)>>
      [] name = "udp_again" -> <<Sleep(1)>>
      [] name = "tcp_connect" ->
            <<Call("connect_ex", TCP_TIMEOUT, {"tcp_refused", "tcp_err"}),
              Inc("connections_made", {1}),
              Call("send", 0, {"tcp_nosend"}), Inc("bytes_sent", {TCP_DATA_LEN}),
              Closes(Sleep(100))>> \o RateDelay(c)
      [] name = "tcp_nosend" -> <<Closes(Sleep(100))>> \o RateDelay(c)
      [] name = "tcp_refused" -> <<Closes(Call("close", 0, {}))>> \o RateDelay(c)
      [] name = "tcp_err" -> <<Inc("errors", {1}), Sleep(10)>>
      [] name = "ping" ->
            <<Call("subprocess.run", PING_TIMEOUT, {"ping_timeout", "ping_err"}),
              Inc("packets_sent", {1})>> \o RateDelayOrPause(c)
      [] name = "ping_timeout" -> <<Inc("errors", {1})>>
      [] name = "ping_err" -> <<Inc("errors", {1}), Sleep(100)>>
      [] name = "http" ->
            <<Call("connect", HTTP_TIMEOUT, {"http_err"}), Call("send", 0, {"http_err"}),
              Closes(Call("recv", HTTP_TIMEOUT, {})), Inc("packets_sent", {1}),
              Inc("bytes_sent", {HttpRequestLen(d, 9) : d \in PathDigits})>>
            \o RateDelay(c)
      [] name = "http_err" -> <<Inc("errors", {1}), Sleep(10)>>
      [] name = "send_udp_packet" ->
            <<Closes(Call("sendto", 0, {"send_err"})), Inc("packets_sent", {1}),
              Inc("bytes_sent", {Min(c.packet_size, 1024)})>> \o RateDelayOrPause(c)
      [] name = "send_tcp_connection" ->
            <<Call("connect_ex", TCP_TIMEOUT, {"send_tcp_refused", "send_err"}),
              Closes(Inc("connections_made", {1})), Inc("packets_sent", {1})>>
            \o RateDelayOrPause(c)
      [] name = "send_tcp_refused" ->
            <<Closes(Call("close", 0, {})), Inc("packets_sent", {1})>> \o RateDelayOrPause(c)
      [] name = "send_ping" ->
            <<Call("subprocess.run", 1, {"send_err"}), Inc("packets_sent", {1})>>
            \o RateDelayOrPause(c)
      [] name = "send_http_request" ->
            <<Call("connect", TCP_TIMEOUT, {"send_err"}),
              Closes(Call("send", 0, {"send_err"})),
              Inc("packets_sent", {1}), Inc("bytes_sent", {HttpHelperRequestLen(9)})>>
            \o RateDelayOrPause(c)
      [] name = "send_err" -> <<Inc("errors", {1})>> \o RateDelayOrPause(c)

Script(c, name) ==
    IF c.variant = "root" THEN RootScript(c, name) ELSE NoRootScript(c, name)

MixedChoiceMut(c, protocol) ==
    IF protocol = "udp" THEN "send_udp_packet"
    ELSE IF protocol = "tcp_syn" THEN "send_tcp_syn_packet"
    ELSE IF protocol = "icmp" THEN "send_icmp_packet"
    ELSE "send_nothing"

\* mixed_protocol_worker (root): the helper its if/elif chain calls for the protocol
\* random.choice gave, or none
MixedChoice(c, protocol) ==
    IF protocol = "udp" THEN "send_udp_packet"
    ELSE IF protocol = "tcp_syn" /\ c.scapy THEN "send_tcp_syn_packet"
    ELSE IF protocol = "icmp" /\ c.scapy THEN "send_icmp_packet"
    ELSE "send_nothing"

IcmpProgMut(c) == "icmp"

\* icmp_flood_worker: without scapy the thread runs system_ping_worker instead
IcmpProg(c) == IF c.scapy THEN "icmp" ELSE "system_ping"

\* what one pass of `while self.running:` runs, by the thread's target; with a
\* target_port outside 0..65535 every call given the address raises OverflowError,
\* which `except socket.error` of the UDP workers does not catch
LoopProgs(c, type) ==
    IF ~c.port_ok
    THEN CASE type = "udp" -> {"overflow"}
           [] type = "tcp_syn" -> {"tcp_syn_err"}
           [] type = "icmp" -> {IcmpProg(c)}
           [] type = "tcp_connect" -> {"tcp_err"}
           [] type = "ping" -> {"ping"}
           [] type = "http" -> {"http_err"}
           [] type = "mixed" -> {"send_err"}
    ELSE IF c.variant = "root"
    THEN CASE type = "udp" -> {"udp"}
           [] type = "tcp_syn" -> {"tcp_syn"}
           [] type = "icmp" -> {IcmpProg(c)}
           [] type = "mixed" -> {MixedChoice(c, p) : p \in {"udp", "tcp_syn", "icmp"}}
    ELSE CASE type = "udp" -> {"udp"}
           [] type = "tcp_connect" -> {"tcp_connect"}
           [] type = "ping" -> {"ping"}
           [] type = "http" -> {"http"}
           [] type = "mixed" ->
                {"send_udp_packet", "send_tcp_connection", "send_ping", "send_http_request"}

\* the passes that begin with socket.socket(...): the socket of one attempt
OwnSocket ==
    {"tcp_connect", "http", "send_udp_packet", "send_tcp_connection", "send_http_request",
     "tcp_err", "http_err"}

\* the workers with one socket for all attempts, created before the loop and closed
\* after it
ReusedSocket == {"udp"}

AfterMut(name) == IF name = "overflow" THEN "exited" ELSE "loop"

\* where a worker goes when a script ends
After(name) == IF name \in {"crash", "overflow"} THEN "exited" ELSE "loop"

----------------------------------------------------------------------------
(* Initial state *)

Counters == {"packets_sent", "bytes_sent", "connections_made", "errors"}

\* self.stats of __init__ (the root variant never touches connections_made)
InitStats ==
    [packets_sent |-> 0, bytes_sent |-> 0, connections_made |-> 0, errors |-> 0,
     start_time |-> 0]

ZeroCounters == [k \in Counters |-> 0]

\* the "Success Rate" line before stop_test has evaluated it
NoSuccessRate == [divided |-> FALSE, num |-> 0, den |-> 0, errors |-> 0]

\* a rate or throughput line before its division by elapsed has been looked at
NoRate == [divided |-> FALSE, den |-> 0]

AvgRateMut(elapsed) == [divided |-> elapsed >= 0, den |-> elapsed]

\* `x / elapsed if elapsed > 0 else 0` of monitor_stats and stop_test: `divided` says
\* that the division was evaluated, `den` is its divisor
AvgRate(elapsed) == [divided |-> elapsed > 0, den |-> elapsed]

Chars == {"y", "e", "s", "Y", "E", "S", "n", "o", " "}

\* str.lower, character by character
LowerChar(ch) ==
    CASE ch = "Y" -> "y"
      [] ch = "E" -> "e"
      [] ch = "S" -> "s"
      [] OTHER -> ch

Lower(str) == [i \in 1..Len(str) |-> LowerChar(str[i])]

\* what the operator may type at the prompt
Answers ==
    {<<"y", "e", "s">>, <<"Y", "E", "S">>, <<"Y", "e", "s">>, <<"n", "o">>, <<>>,
     <<"y">>, <<"y", "e", "s", " ">>, <<"y", "e">>}

\* the configurations of a run: valid ones of both variants, and invalid ones
RunConfigs ==
    { Config("root", TRUE, TRUE, <<"udp">>, 2, 2, 0, 1, TRUE),
      Config("root", FALSE, TRUE, <<"tcp_syn", "icmp">>, 1, 64, 1, 0, TRUE),
      Config("root", TRUE, TRUE, <<"icmp">>, 1, 20, 0, 1, TRUE),
      Config("root", TRUE, TRUE, <<"tcp_syn">>, 1, 64, 1, 2, TRUE),
      Config("root", TRUE, TRUE, <<"mixed">>, 1, 3, 2, 1, TRUE),
      Config("root", FALSE, TRUE, <<"mixed", "tcp_syn">>, 1, 3, 0, 1, TRUE),
      Config("root", FALSE, TRUE, <<"tcp_syn", "tcp_syn">>, 2, 64, 0, 1, FALSE),
      Config("noroot", FALSE, TRUE, <<"http">>, 1, 64, 0, 1, TRUE),
      Config("noroot", FALSE, TRUE, <<"tcp_connect">>, 1, 64, 0, 2, TRUE),
      Config("noroot", FALSE, TRUE, <<"ping">>, 1, 64, 0, 1, TRUE),
      Config("noroot", FALSE, TRUE, <<"mixed">>, 1, 2000, 0, 0, TRUE),
      Config("noroot", FALSE, TRUE, <<"mixed">>, 1, 1024, 0, 0, TRUE),
      Config("noroot", FALSE, TRUE, <<"udp">>, 1, 7, 1, 1, FALSE),
      Config("root", TRUE, TRUE, <<"udp">>, 0, 64, 0, 1, TRUE),
      Config("noroot", FALSE, TRUE, <<"udp">>, 1, 0, 0, 1, TRUE),
      Config("root", TRUE, TRUE, <<"udp">>, 1, 64, -1, 1, TRUE),
      Config("noroot", FALSE, TRUE, <<>>, 1, 64, 0, 1, TRUE),
      Config("root", TRUE, TRUE, <<"udp", "http">>, 1, 64, 0, 1, TRUE),
      Config("noroot", FALSE, TRUE, <<"tcp_syn">>, 1, 64, 0, 1, TRUE),
      Config("root", TRUE, FALSE, <<"udp">>, 1, 64, 0, 1, TRUE),
      BadPort(Config("root", TRUE, TRUE, <<"udp">>, 1, 64, 0, 1, TRUE)) }

\* the rate limiter while it is not looked at
RateIdle == [t |-> 0, w |-> <<>>, attempts |-> 0, failed |-> 0]

InitMain(c) ==
    /\ cfg = c
    /\ pc = "validate"
    /\ validated = FALSE
    /\ exit_status = -1
    /\ answer = [asked |-> FALSE, text |-> <<>>]
    /\ running = FALSE
    /\ stats = InitStats
    /\ threads = <<>>
    /\ wk = <<>>
    /\ sp = [t |-> 1, i |-> 0, thread_id |-> 0]
    /\ jn = [j |-> 1, start |-> 0]
    /\ wake = 0
    /\ pending = FALSE
    /\ report = [read |-> 0, elapsed |-> 0, vals |-> ZeroCounters, success |-> NoSuccessRate,
                 avg |-> NoRate]
    /\ mon = [pc |-> "none", until |-> 0, packets_sent |-> 0, rate |-> NoRate]
    /\ sigs = <<>>
    /\ now = 1
    /\ hist = [issued |-> ZeroCounters, stop_called |-> FALSE, stop_returned |-> FALSE,
               join_end |-> -1, joined |-> <<>>, mon_pairs |-> {}, mon_torn |-> FALSE,
               report_pairs |-> {}, report_torn |-> FALSE]

InitOf(c) == InitMain(c) /\ rl = RateIdle

\* runs in which stop_test joins two threads that are each inside a call
JoinConfigs == { Config("noroot", FALSE, TRUE, <<"http">>, 2, 64, 0, 1, TRUE) }

InitJoin == \E c \in JoinConfigs : InitOf(c)

Init == \E c \in RunConfigs : InitOf(c)

\* the configurations validate_config is tried on: every range's two edges, from
\* both sides, and test-type lists of either variant
ValidateConfigs ==
    { Config(v, FALSE, TRUE, types, tc, size, pps, 1, TRUE) :
        v \in {"root", "noroot"},
        types \in {<<>>, <<"udp">>, <<"tcp_syn">>, <<"http">>, <<"mixed", "udp">>,
                   <<"udp", "flood">>, <<"icmp", "ping">>, <<"tcp_connect", "ping", "http">>,
                   <<"icmp", "tcp_syn", "mixed", "udp">>},
        tc \in {-1, 0, 1, 1000, 1001},
        size \in {0, 1, 65507, 65508},
        pps \in {-1, 0, 1} }

InitValidate == \E c \in ValidateConfigs : InitOf(c)

Alive == exit_status = -1

----------------------------------------------------------------------------
(* The controlling thread: main, start_test, stop_test *)

MainValidateMut ==
    /\ Alive /\ pc = "validate"
    /\ validated' = validate_config(cfg)
    /\ pc' = "construct"
    /\ UNCHANGED <<rl, cfg, exit_status, answer, running, stats, threads, wk, sp, jn, wake,
                   pending, report, mon, sigs, now, hist>>

\* main: `if not validate_config(config): sys.exit(1)`
MainValidate ==
    /\ Alive /\ pc = "validate"
    /\ validated' = validate_config(cfg)
    /\ pc' = IF validated' THEN "construct" ELSE "exited"
    /\ exit_status' = IF validated' THEN -1 ELSE 1
    /\ UNCHANGED <<rl, cfg, answer, running, stats, threads, wk, sp, jn, wake, pending,
                   report, mon, sigs, now, hist>>

\* main: signal.signal(SIGINT, signal_handler); tester = NetworkStressTester(config),
\* whose __init__ raises ValueError for a target_ip that is no IP literal
MainConstruct ==
    /\ Alive /\ pc = "construct"
    /\ pc' = IF cfg.ip_ok THEN "confirm" ELSE "exited"
    /\ exit_status' = IF cfg.ip_ok THEN -1 ELSE 1
    /\ UNCHANGED <<rl, cfg, validated, answer, running, stats, threads, wk, sp, jn, wake,
                   pending, report, mon, sigs, now, hist>>

DeclinedMut(text) == Lower(text) = <<"n", "o">>

\* start_test: `confirm.lower() != 'yes'`
Declined(text) == Lower(text) # <<"y", "e", "s">>

\* start_test: the prompt is answered with something other than yes: return
ConfirmDeclined ==
    /\ Alive /\ pc = "confirm"
    /\ ~cfg.verbose
    /\ \E a \in Answers :
          /\ Declined(a)
          /\ answer' = [asked |-> TRUE, text |-> a]
    /\ pc' = "exited"
    /\ exit_status' = 0
    /\ UNCHANGED <<rl, cfg, validated, running, stats, threads, wk, sp, jn, wake, pending,
                   report, mon, sigs, now, hist>>

StartRunMut ==
    /\ Alive /\ pc = "confirm"
    /\ \/ cfg.verbose /\ UNCHANGED answer
       \/ /\ ~cfg.verbose
          /\ \E a \in Answers :
                /\ ~Declined(a)
                /\ answer' = [asked |-> TRUE, text |-> a]
    /\ running' = TRUE
    /\ sp' = [t |-> 1, i |-> 0, thread_id |-> 0]
    /\ pc' = "spawn"
    /\ UNCHANGED <<rl, cfg, validated, exit_status, stats, threads, wk, jn, wake, pending, report,
                   mon, sigs, now, hist>>

\* start_test: verbose, or the prompt answered yes: running = True, start_time = time.time()
StartRun ==
    /\ Alive /\ pc = "confirm"
    /\ \/ cfg.verbose /\ UNCHANGED answer
       \/ /\ ~cfg.verbose
          /\ \E a \in Answers :
                /\ ~Declined(a)
                /\ answer' = [asked |-> TRUE, text |-> a]
    /\ running' = TRUE
    /\ stats' = [stats EXCEPT !.start_time = now]
    /\ sp' = [t |-> 1, i |-> 0, thread_id |-> 0]
    /\ pc' = "spawn"
    /\ UNCHANGED <<rl, cfg, validated, exit_status, threads, wk, jn, wake, pending, report,
                   mon, sigs, now, hist>>

\* the if/elif chain of the spawn loop: the test types that get a thread
SpawnTypes(c) == IF c.variant = "root" THEN Range(RootTypes) ELSE Range(NoRootTypes)

\* a thread as it is started; `got` is what the pass of the loop it is in has added
\* to each counter so far, `socks` the sockets it has created and not closed (a
\* socket whose name is bound anew is dropped)
NewWorker(type) ==
    [type |-> type, prog |-> "start", pos |-> 1, until |-> 0, reg |-> -1, n |-> 0,
     got |-> ZeroCounters, socks |-> 0]

NextSpawnMut(c, s, made) ==
    [t |-> IF s.i + 1 >= c.thread_count THEN s.t + 1 ELSE s.t,
     i |-> IF s.i + 1 >= c.thread_count THEN 0 ELSE s.i + 1,
     thread_id |-> s.thread_id]

\* the loop variables after one pass: `for i in range(thread_count)` inside
\* `for test_type in test_types`, and thread_id += 1 when a thread was made
NextSpawn(c, s, made) ==
    [t |-> IF s.i + 1 >= c.thread_count THEN s.t + 1 ELSE s.t,
     i |-> IF s.i + 1 >= c.thread_count THEN 0 ELSE s.i + 1,
     thread_id |-> IF made THEN s.thread_id + 1 ELSE s.thread_id]

\* start_test: one pass of the inner loop: Thread(target=..., args=(thread_id,)),
\* daemon, start(), self.threads.append(thread), thread_id += 1
SpawnWorker ==
    /\ Alive /\ pc = "spawn"
    /\ sp.t <= Len(cfg.test_types) /\ cfg.thread_count > 0
    /\ LET type == cfg.test_types[sp.t]
           made == type \in SpawnTypes(cfg)
       IN /\ wk' = IF made THEN Append(wk, NewWorker(type)) ELSE wk
          /\ threads' = IF made THEN Append(threads, sp.thread_id) ELSE threads
          /\ sp' = NextSpawn(cfg, sp, made)
    /\ UNCHANGED <<rl, cfg, pc, validated, exit_status, answer, running, stats, jn, wake,
                   pending, report, mon, sigs, now, hist>>

\* start_test: the monitor thread is started; the try block is entered and
\* time.sleep(duration) (or the `while True: time.sleep(1)` loop) begins
StartMonitor ==
    /\ Alive /\ pc = "spawn"
    /\ (sp.t > Len(cfg.test_types) \/ cfg.thread_count <= 0)
    /\ mon' = [mon EXCEPT !.pc = "check", !.until = now]
    /\ wake' = now + cfg.duration
    /\ pc' = "wait"
    /\ UNCHANGED <<rl, cfg, validated, exit_status, answer, running, stats, threads, wk, sp,
                   jn, pending, report, sigs, now, hist>>

WaitDoneMut ==
    /\ Alive /\ pc = "wait"
    /\ cfg.duration >= 0
    /\ now >= wake
    /\ pc' = "stop"
    /\ UNCHANGED <<rl, cfg, validated, exit_status, answer, running, stats, threads, wk, sp,
                   jn, wake, pending, report, mon, sigs, now, hist>>

\* start_test: time.sleep(duration) returns; finally: self.stop_test()
WaitDone ==
    /\ Alive /\ pc = "wait"
    /\ cfg.duration > 0
    /\ now >= wake
    /\ pc' = "stop"
    /\ UNCHANGED <<rl, cfg, validated, exit_status, answer, running, stats, threads, wk, sp,
                   jn, wake, pending, report, mon, sigs, now, hist>>

StopTestMut ==
    /\ Alive /\ pc = "stop"
    /\ running' = FALSE
    /\ jn' = [j |-> 1, start |-> now]
    /\ pc' = "report"
    /\ hist' = [hist EXCEPT !.stop_called = TRUE, !.join_end = now]
    /\ UNCHANGED <<rl, cfg, validated, exit_status, answer, stats, threads, wk, sp, wake,
                   pending, report, mon, sigs, now>>

\* stop_test: self.running = False; the join loop begins
StopTest ==
    /\ Alive /\ pc = "stop"
    /\ running' = FALSE
    /\ jn' = [j |-> 1, start |-> now]
    /\ pc' = IF Len(threads) > 0 THEN "join" ELSE "report"
    /\ hist' = [hist EXCEPT !.stop_called = TRUE,
                            !.join_end = IF Len(threads) > 0 THEN -1 ELSE now]
    /\ UNCHANGED <<rl, cfg, validated, exit_status, answer, stats, threads, wk, sp, wake,
                   pending, report, mon, sigs, now>>

\* the process ends: its daemon threads (workers, monitor) end with it
Killed(ws) ==
    [i \in 1..Len(ws) |->
        IF ws[i].prog = "exited" THEN ws[i]
        ELSE [ws[i] EXCEPT !.prog = "killed", !.pos = 1, !.until = 0, !.reg = -1,
                           !.got = ZeroCounters, !.socks = 0]]

KilledMonitor(m) ==
    IF m.pc \in {"none", "exited"} THEN m
    ELSE [pc |-> "killed", until |-> 0, packets_sent |-> 0, rate |-> NoRate]

WorkerExited(id) == wk[id + 1].prog = "exited"

JoinReadyMut ==
    /\ pc = "join"
    /\ jn.j <= Len(threads)
    /\ WorkerExited(threads[jn.j])

\* stop_test: thread.join(timeout=2) returns: the thread has ended, or 2 s have passed
JoinReady ==
    /\ pc = "join"
    /\ jn.j <= Len(threads)
    /\ \/ WorkerExited(threads[jn.j])
       \/ now >= jn.start + JOIN_TIMEOUT

JoinThread ==
    /\ Alive /\ JoinReady
    /\ jn' = [j |-> jn.j + 1, start |-> now]
    /\ pc' = IF jn.j = Len(threads) THEN "report" ELSE "join"
    /\ hist' = [hist EXCEPT !.joined = Append(@, threads[jn.j]),
                            !.join_end = IF jn.j = Len(threads) THEN now ELSE @]
    /\ UNCHANGED <<rl, cfg, validated, exit_status, answer, running, stats, threads, wk, sp,
                   wake, pending, report, mon, sigs, now>>

\* the pair (packets_sent, bytes_sent) the stats hold
Pair(st) == <<st.packets_sent, st.bytes_sent>>

\* the order in which stop_test reads self.stats for the report
ReportFields(c) ==
    IF c.variant = "root"
    THEN <<"packets_sent", "bytes_sent", "errors">>
    ELSE <<"packets_sent", "connections_made", "bytes_sent", "errors">>

\* after k reads stop_test has read packets_sent and has yet to read bytes_sent
ReportPairOpen(k) ==
    /\ pc = "report" /\ k > 0
    /\ \E j \in k + 1 .. Len(ReportFields(cfg)) : ReportFields(cfg)[j] = "bytes_sent"

SuccessRateMut(total_packets, errors) ==
    IF total_packets >= 0
    THEN [divided |-> TRUE, num |-> total_packets - errors, den |-> total_packets,
          errors |-> errors]
    ELSE NoSuccessRate

\* stop_test's last line: (total_packets - self.stats['errors']) / total_packets * 100
\* if total_packets > 0, else "N/A"; `divided` says that the division was evaluated
SuccessRate(total_packets, errors) ==
    IF total_packets > 0
    THEN [divided |-> TRUE, num |-> total_packets - errors, den |-> total_packets,
          errors |-> errors]
    ELSE NoSuccessRate

\* the reads of self.stats stop_test makes: its fields, then errors once more for
\* the success rate
ReportSteps(c) == Len(ReportFields(c)) + 1

\* stop_test: one read of self.stats for the final report (elapsed is taken before
\* the first, avg_pps and avg_mbps are evaluated after total_bytes); with the last
\* one the report is printed and stop_test returns
ReportRead ==
    /\ Alive /\ pc = "report"
    /\ LET k == report.read + 1
           f == ReportFields(cfg)[k]
       IN /\ report' =
                IF k <= Len(ReportFields(cfg))
                THEN [report EXCEPT !.read = k,
                                    !.elapsed = IF k = 1 THEN now - stats.start_time ELSE @,
                                    !.vals[f] = stats[f],
                                    !.avg = IF f = "bytes_sent" THEN AvgRate(report.elapsed)
                                            ELSE @]
                ELSE [report EXCEPT !.read = k,
                                    !.success = SuccessRate(report.vals.packets_sent,
                                                            stats.errors)]
          /\ pc' = IF k = ReportSteps(cfg) THEN "stopped" ELSE "report"
          /\ hist' = [hist EXCEPT
                        !.stop_returned = (k = ReportSteps(cfg)),
                        !.report_pairs = IF k = 1 THEN {Pair(stats)}
                                         ELSE IF ReportPairOpen(k) THEN @ ELSE {},
                        !.report_torn =
                            IF k <= Len(ReportFields(cfg)) /\ f = "bytes_sent"
                            THEN <<report.vals.packets_sent, stats.bytes_sent>>
                                     \notin hist.report_pairs
                            ELSE @]
    /\ UNCHANGED <<rl, cfg, validated, exit_status, answer, running, stats, threads, wk, sp,
                   jn, wake, pending, mon, sigs, now>>

\* start_test returns (or the pending SystemExit(0) is re-raised) and the process
\* ends with status 0; its daemon threads end with it
ProcessExit ==
    /\ Alive /\ pc = "stopped"
    /\ pc' = "exited"
    /\ exit_status' = 0
    /\ wk' = Killed(wk)
    /\ mon' = KilledMonitor(mon)
    /\ hist' = [hist EXCEPT !.mon_pairs = {}]
    /\ UNCHANGED <<rl, cfg, validated, answer, running, stats, threads, sp, jn, wake,
                   pending, report, sigs, now>>

\* signal_handler is installed from main's signal.signal on
HandlerInstalled == pc \in {"confirm", "spawn", "wait", "stop", "join", "report", "stopped"}

SigintInWaitMut ==
    /\ Alive /\ pc = "wait"
    /\ Len(sigs) < MaxSigint
    /\ sigs' = Append(sigs, pc)
    /\ pc' = "exited"
    /\ exit_status' = 0
    /\ UNCHANGED <<rl, cfg, validated, answer, running, stats, threads, wk, sp, jn, wake,
                   pending, report, mon, now, hist>>

\* SIGINT during the wait: signal_handler's sys.exit(0) raises SystemExit inside the
\* try block; `except KeyboardInterrupt` does not catch it; finally runs stop_test
SigintInWait ==
    /\ Alive /\ pc = "wait"
    /\ Len(sigs) < MaxSigint
    /\ sigs' = Append(sigs, pc)
    /\ pending' = TRUE
    /\ pc' = "stop"
    /\ UNCHANGED <<rl, cfg, validated, exit_status, answer, running, stats, threads, wk, sp,
                   jn, wake, report, mon, now, hist>>

\* SIGINT anywhere else: SystemExit(0) leaves start_test (and stop_test) at once
SigintElsewhere ==
    /\ Alive /\ HandlerInstalled /\ pc # "wait"
    /\ Len(sigs) < MaxSigint
    /\ sigs' = Append(sigs, pc)
    /\ pc' = "exited"
    /\ exit_status' = 0
    /\ wk' = Killed(wk)
    /\ mon' = KilledMonitor(mon)
    /\ hist' = [hist EXCEPT !.mon_pairs = {}]
    /\ UNCHANGED <<rl, cfg, validated, answer, running, stats, threads, sp, jn, wake,
                   pending, report, now>>

----------------------------------------------------------------------------
(* The worker threads *)

Workers == 1..Len(wk)

CurOp(w) == Script(cfg, w.prog)[w.pos]

InScript(w) == w.prog \notin {"start", "loop", "exited", "killed"}

\* the worker at entry pos of script p: a call is entered at once and returns
\* lo..hi seconds later; `until` is the latest time of its return
Arrive(w, p, pos) ==
    LET op == Script(cfg, p)[pos]
    IN {[w EXCEPT !.prog = p, !.pos = pos, !.reg = -1,
                  !.until = now + (IF op.k = "call" THEN op.hi ELSE 0)]}

\* the worker after the current entry of its script
Advance(w) ==
    LET v == [w EXCEPT !.socks = IF CurOp(w).close THEN 0 ELSE @]
    IN IF w.pos + 1 > Len(Script(cfg, w.prog))
       THEN {[v EXCEPT !.prog = After(w.prog), !.pos = 1, !.reg = -1, !.until = now,
                       !.got = ZeroCounters]}
       ELSE Arrive(v, w.prog, w.pos + 1)

BeginProgsMut(c, type) ==
    IF type = "udp" THEN {"loop", "crash"} ELSE {"loop"}

\* the thread begins its target: tcp_syn_flood_worker returns at once without scapy;
\* the UDP workers create their socket, and socket.socket may raise
BeginProgs(c, type) ==
    IF c.variant = "root" /\ type = "tcp_syn" /\ ~c.scapy THEN {"exited"}
    ELSE IF type = "udp" THEN {"loop", "crash"}
    ELSE {"loop"}

WorkerBegin(i) ==
    /\ Alive /\ i \in Workers
    /\ wk[i].prog = "start"
    /\ \E p \in BeginProgs(cfg, wk[i].type) :
          wk' = [wk EXCEPT ![i] =
                    [@ EXCEPT !.prog = p, !.pos = 1,
                              !.socks = IF p = "loop" /\ wk[i].type \in ReusedSocket
                                        THEN 1 ELSE 0]]
    /\ UNCHANGED <<rl, cfg, pc, validated, exit_status, answer, running, stats, threads, sp,
                   jn, wake, pending, report, mon, sigs, now, hist>>

\* `while self.running:` read False: the loop is left, a UDP worker closes its
\* socket, and the thread ends
WorkerLeave(i) ==
    /\ Alive /\ i \in Workers
    /\ wk[i].prog = "loop"
    /\ ~running
    /\ wk' = [wk EXCEPT ![i] =
                 [@ EXCEPT !.prog = "exited",
                           !.socks = IF wk[i].type \in ReusedSocket THEN 0 ELSE @]]
    /\ UNCHANGED <<rl, cfg, pc, validated, exit_status, answer, running, stats, threads, sp,
                   jn, wake, pending, report, mon, sigs, now, hist>>

\* `while self.running:` read True: one more pass of the loop body
WorkerLoop(i) ==
    /\ Alive /\ i \in Workers
    /\ wk[i].prog = "loop"
    /\ running
    /\ wk[i].n < MaxAttempts
    /\ \E p \in LoopProgs(cfg, wk[i].type) :
       \E w \in Arrive([wk[i] EXCEPT !.n = @ + 1,
                                     !.socks = IF p \in OwnSocket THEN 1 ELSE @], p, 1) :
          wk' = [wk EXCEPT ![i] = w]
    /\ UNCHANGED <<rl, cfg, pc, validated, exit_status, answer, running, stats, threads, sp,
                   jn, wake, pending, report, mon, sigs, now, hist>>

\* the call may return now: lo seconds have passed since it was entered
CallOver(w) ==
    InScript(w) /\ CurOp(w).k = "call" /\ now >= w.until - CurOp(w).hi + CurOp(w).lo

\* the call returns now at the latest: hi seconds have passed
CallDue(w) == InScript(w) /\ CurOp(w).k = "call" /\ now >= w.until

\* the call returns and the next statement follows
WorkerReturn(i) ==
    /\ Alive /\ i \in Workers
    /\ CallOver(wk[i])
    /\ \E w \in Advance(wk[i]) : wk' = [wk EXCEPT ![i] = w]
    /\ UNCHANGED <<rl, cfg, pc, validated, exit_status, answer, running, stats, threads, sp,
                   jn, wake, pending, report, mon, sigs, now, hist>>

\* the call raises (or returns the result) that selects another branch
WorkerRaise(i) ==
    /\ Alive /\ i \in Workers
    /\ CallOver(wk[i])
    /\ \E p \in CurOp(wk[i]).alts :
       \E w \in Arrive(wk[i], p, 1) :
          wk' = [wk EXCEPT ![i] = w]
    /\ UNCHANGED <<rl, cfg, pc, validated, exit_status, answer, running, stats, threads, sp,
                   jn, wake, pending, report, mon, sigs, now, hist>>

\* self.stats[c] += a, first half: the entry's value is read
WorkerIncRead(i) ==
    /\ Alive /\ i \in Workers
    /\ InScript(wk[i]) /\ CurOp(wk[i]).k = "inc"
    /\ wk[i].reg = -1
    /\ wk' = [wk EXCEPT ![i] = [@ EXCEPT !.reg = stats[CurOp(wk[i]).c]]]
    /\ UNCHANGED <<rl, cfg, pc, validated, exit_status, answer, running, stats, threads, sp,
                   jn, wake, pending, report, mon, sigs, now, hist>>

StoredValueMut(read, a) == read + a + a

\* the value a worker stores for an increment by a, given the value it read
StoredValue(read, a) == read + a

\* self.stats[c] += a, second half: the sum is stored
WorkerIncWrite(i) ==
    /\ Alive /\ i \in Workers
    /\ InScript(wk[i]) /\ CurOp(wk[i]).k = "inc"
    /\ wk[i].reg # -1
    /\ \E a \in CurOp(wk[i]).amts :
          /\ stats' = [stats EXCEPT ![CurOp(wk[i]).c] = StoredValue(wk[i].reg, a)]
          /\ hist' = [hist EXCEPT
                        !.issued[CurOp(wk[i]).c] = @ + a,
                        !.mon_pairs = IF mon.pc = "sample" THEN @ \cup {Pair(stats')} ELSE @,
                        !.report_pairs = IF ReportPairOpen(report.read)
                                         THEN @ \cup {Pair(stats')} ELSE @]
          /\ \E w \in Advance([wk[i] EXCEPT !.got[CurOp(wk[i]).c] = @ + a]) :
                wk' = [wk EXCEPT ![i] = w]
    /\ UNCHANGED <<rl, cfg, pc, validated, exit_status, answer, running, threads, sp, jn,
                   wake, pending, report, mon, sigs, now>>

\* the worker has a step it takes without waiting
WorkerReady(w) ==
    \/ w.prog = "start"
    \/ w.prog = "loop" /\ (~running \/ w.n < MaxAttempts)
    \/ InScript(w) /\ CurOp(w).k = "inc"
    \/ CallDue(w)

----------------------------------------------------------------------------
(* The monitor thread *)

MonitorSampleMut ==
    /\ Alive /\ mon.pc = "check"
    /\ now >= mon.until
    /\ mon' = [mon EXCEPT !.pc = "sample", !.packets_sent = stats.packets_sent,
                          !.rate = AvgRate(now - stats.start_time)]
    /\ hist' = [hist EXCEPT !.mon_pairs = {Pair(stats)}]
    /\ UNCHANGED <<rl, cfg, pc, validated, exit_status, answer, running, stats, threads, wk,
                   sp, jn, wake, pending, report, sigs, now>>

\* monitor_stats: `while self.running:` read True: elapsed, and self.stats['packets_sent']
\* is read for pps, which is divided by elapsed if elapsed > 0
MonitorSample ==
    /\ Alive /\ mon.pc = "check"
    /\ now >= mon.until
    /\ running
    /\ mon' = [mon EXCEPT !.pc = "sample", !.packets_sent = stats.packets_sent,
                          !.rate = AvgRate(now - stats.start_time)]
    /\ hist' = [hist EXCEPT !.mon_pairs = {Pair(stats)}]
    /\ UNCHANGED <<rl, cfg, pc, validated, exit_status, answer, running, stats, threads, wk,
                   sp, jn, wake, pending, report, sigs, now>>

\* monitor_stats: self.stats['bytes_sent'] is read for mbps, the status line is printed,
\* then time.sleep(1)
MonitorPrint ==
    /\ Alive /\ mon.pc = "sample"
    /\ mon' = [pc |-> "check", until |-> now + MONITOR_INTERVAL, packets_sent |-> 0,
               rate |-> NoRate]
    /\ hist' = [hist EXCEPT
                  !.mon_pairs = {},
                  !.mon_torn = @ \/ <<mon.packets_sent, stats.bytes_sent>> \notin hist.mon_pairs]
    /\ UNCHANGED <<rl, cfg, pc, validated, exit_status, answer, running, stats, threads, wk,
                   sp, jn, wake, pending, report, sigs, now>>

\* monitor_stats: `while self.running:` read False: the thread ends
MonitorLeave ==
    /\ Alive /\ mon.pc = "check"
    /\ now >= mon.until
    /\ ~running
    /\ mon' = [pc |-> "exited", until |-> 0, packets_sent |-> 0, rate |-> NoRate]
    /\ UNCHANGED <<rl, cfg, pc, validated, exit_status, answer, running, stats, threads, wk,
                   sp, jn, wake, pending, report, sigs, now, hist>>

----------------------------------------------------------------------------
(* Time *)

\* the controlling thread has a step it takes without waiting
MainReady ==
    \/ pc \in {"validate", "construct", "confirm", "spawn", "stop", "report"}
    \/ pc = "wait" /\ cfg.duration > 0 /\ now >= wake
    \/ JoinReady

MonitorReady == mon.pc = "sample" \/ (mon.pc = "check" /\ now >= mon.until)

\* a second passes: every thread is blocked, asleep or ended.  The clock's bound
\* ends the run; the joins of stop_test, each bounded by its timeout, are let finish
Tick ==
    /\ Alive
    /\ (now < MaxTime \/ pc = "join")
    /\ ~MainReady
    /\ ~MonitorReady
    /\ \A i \in Workers : ~WorkerReady(wk[i])
    /\ now' = now + 1
    /\ UNCHANGED <<rl, cfg, pc, validated, exit_status, answer, running, stats, threads, wk,
                   sp, jn, wake, pending, report, mon, sigs, hist>>

----------------------------------------------------------------------------
(* The rate limiter of the UDP workers (udp_flood_worker of both variants) on *)
(* a millisecond clock rl.t.  sendto takes no time, which is the case that    *)
(* gives the most attempts; the workers all start at 0 and run for the whole  *)
(* time.  rl.w[i] holds worker i's locals packets_sent and last_rate_check, the *)
(* time its current time.sleep ends, and the length of the window branch's    *)
(* time.sleep(sleep_time) in its last pass (0 when it was not called).        *)

WindowCheckMut(c, packets_sent, last_rate_check, current_time) ==
    LET elapsed == current_time - last_rate_check
        over == IF c.variant = "root"
                THEN packets_sent > c.packets_per_second
                ELSE c.packets_per_second > 0 /\ packets_sent > c.packets_per_second
        sleep_time == 1000 - elapsed
    IN IF elapsed >= 500
       THEN [packets_sent |-> 0, last_rate_check |-> current_time,
             sleep |-> IF over /\ sleep_time > 0 THEN sleep_time ELSE 0]
       ELSE [packets_sent |-> packets_sent, last_rate_check |-> last_rate_check,
             sleep |-> 0]

\* the rate check after a send: elapsed = current_time - last_rate_check, and under
\* `if elapsed >= 1.0` the sleep of 1.0 - elapsed and the reset of the window
WindowCheck(c, packets_sent, last_rate_check, current_time) ==
    LET elapsed == current_time - last_rate_check
        over == IF c.variant = "root"
                THEN packets_sent > c.packets_per_second
                ELSE c.packets_per_second > 0 /\ packets_sent > c.packets_per_second
        sleep_time == 1000 - elapsed
    IN IF elapsed >= 1000
       THEN [packets_sent |-> 0, last_rate_check |-> current_time,
             sleep |-> IF over /\ sleep_time > 0 THEN sleep_time ELSE 0]
       ELSE [packets_sent |-> packets_sent, last_rate_check |-> last_rate_check,
             sleep |-> 0]

\* the UDP worker's pause in `except socket.error`: time.sleep(0.01), no-root 0.001
ErrorPauseMs(c) == IF c.variant = "root" THEN 10 ELSE 1

\* the workers as their threads begin: packets_sent = 0, last_rate_check = time.time()
RateInit(c) ==
    [t |-> 0,
     w |-> [i \in 1..c.thread_count |->
               [wake |-> 0, packets_sent |-> 0, last_rate_check |-> 0, sleep |-> 0]],
     attempts |-> 0, failed |-> 0]

RateConfigs ==
    { Config(v, TRUE, TRUE, <<"udp">>, tc, 64, pps, 0, TRUE) :
        v \in {"root", "noroot"}, tc \in 1..2, pps \in 1..2 }

InitRate == \E c \in RateConfigs : InitMain(c) /\ rl = RateInit(c)

RateAwake(i) == rl.t < RateHorizonMs /\ rl.w[i].wake <= rl.t

\* one pass of the loop in which sendto returns: the counters, the rate check, the
\* delay of 1 / packets_per_second / thread_count
RateSend(i) ==
    /\ RateAwake(i)
    /\ LET chk == WindowCheck(cfg, rl.w[i].packets_sent + 1, rl.w[i].last_rate_check, rl.t)
           delay == IF cfg.packets_per_second > 0 THEN RateDelayMs(cfg) ELSE 0
       IN rl' = [rl EXCEPT !.attempts = @ + 1,
                           !.w[i] = [wake |-> rl.t + chk.sleep + delay,
                                     packets_sent |-> chk.packets_sent,
                                     last_rate_check |-> chk.last_rate_check,
                                     sleep |-> chk.sleep]]
    /\ UNCHANGED <<cfg, pc, validated, exit_status, answer, running, stats, threads, wk,
                   sp, jn, wake, pending, report, mon, sigs, now, hist>>

\* one pass of the loop in which sendto raises socket.error: the pause only
RateSendFails(i) ==
    /\ RateAwake(i)
    /\ rl.failed < MaxRateErrors
    /\ rl' = [rl EXCEPT !.attempts = @ + 1, !.failed = @ + 1,
                        !.w[i].wake = rl.t + ErrorPauseMs(cfg), !.w[i].sleep = 0]
    /\ UNCHANGED <<cfg, pc, validated, exit_status, answer, running, stats, threads, wk,
                   sp, jn, wake, pending, report, mon, sigs, now, hist>>

RECURSIVE MinWake(_, _)
MinWake(w, i) ==
    IF i = Len(w) THEN w[i].wake ELSE Min(w[i].wake, MinWake(w, i + 1))

\* every worker sleeps: time passes until the first of them wakes
RateTick ==
    /\ rl.t < RateHorizonMs
    /\ \A i \in 1..Len(rl.w) : rl.w[i].wake > rl.t
    /\ rl' = [rl EXCEPT !.t = MinWake(rl.w, 1)]
    /\ UNCHANGED <<cfg, pc, validated, exit_status, answer, running, stats, threads, wk,
                   sp, jn, wake, pending, report, mon, sigs, now, hist>>

----------------------------------------------------------------------------
(* Specifications *)

WorkerStep ==
    \E i \in 1..Len(wk) :
        \/ WorkerBegin(i)
        \/ WorkerLeave(i)
        \/ WorkerLoop(i)
        \/ WorkerReturn(i)
        \/ WorkerRaise(i)
        \/ WorkerIncRead(i)
        \/ WorkerIncWrite(i)

Next ==
    \/ MainValidate
    \/ MainConstruct
    \/ ConfirmDeclined
    \/ StartRun
    \/ SpawnWorker
    \/ StartMonitor
    \/ WaitDone
    \/ StopTest
    \/ JoinThread
    \/ ReportRead
    \/ ProcessExit
    \/ SigintInWait
    \/ SigintElsewhere
    \/ WorkerStep
    \/ MonitorSample
    \/ MonitorPrint
    \/ MonitorLeave
    \/ Tick

Spec == Init /\ [][Next]_vars

\* validate_config alone, on ValidateConfigs
NextValidate == MainValidate

SpecValidate == InitValidate /\ [][NextValidate]_vars

\* the run of a configuration that is valid and verbose, on JoinConfigs
NextJoin ==
    \/ MainValidate
    \/ MainConstruct
    \/ StartRun
    \/ SpawnWorker
    \/ StartMonitor
    \/ WaitDone
    \/ StopTest
    \/ JoinThread
    \/ ReportRead
    \/ ProcessExit
    \/ SigintInWait
    \/ SigintElsewhere
    \/ WorkerStep
    \/ MonitorSample
    \/ MonitorPrint
    \/ MonitorLeave
    \/ Tick

SpecJoin == InitJoin /\ [][NextJoin]_vars

RateStep == \E i \in 1..Len(rl.w) : RateSend(i) \/ RateSendFails(i)

\* the UDP workers' rate limiter alone, on RateConfigs
NextRate == RateStep \/ RateTick

SpecRate == InitRate /\ [][NextRate]_vars

\* the steps of the controlling thread, of worker i and of the monitor thread
MainStep ==
    \/ MainValidate
    \/ MainConstruct
    \/ StartRun
    \/ SpawnWorker
    \/ StartMonitor
    \/ WaitDone
    \/ StopTest
    \/ JoinThread
    \/ ReportRead
    \/ ProcessExit

WorkerStepOf(i) ==
    \/ WorkerBegin(i)
    \/ WorkerLeave(i)
    \/ WorkerLoop(i)
    \/ WorkerReturn(i)
    \/ WorkerRaise(i)
    \/ WorkerIncRead(i)
    \/ WorkerIncWrite(i)

MonitorStep == MonitorSample \/ MonitorPrint \/ MonitorLeave

\* the runs whose progress is looked at: the valid configurations that show no prompt
\* and start one thread per test type; of the two no-root mixed runs, which differ in
\* the payload's length only, the one of 2000 bytes
LiveConfigs ==
    {c \in RunConfigs : /\ c.verbose /\ c.ip_ok /\ validate_config(c)
                        /\ c.thread_count = 1
                        /\ c.packet_size # 1024}

InitLive == \E c \in LiveConfigs : InitOf(c)

\* the thread ids + 1 of the workers of these runs
LiveWorkers == UNION {1..(Len(c.test_types) * c.thread_count) : c \in LiveConfigs}

\* every thread that can take a step takes one in the end (the interpreter switches
\* threads, and a blocking call with a timeout returns), and time passes; a SIGINT
\* may or may not come
Fairness ==
    /\ WF_vars(MainStep)
    /\ WF_vars(MonitorStep)
    /\ WF_vars(Tick)
    /\ \A i \in LiveWorkers : WF_vars(WorkerStepOf(i))

SpecLive == InitLive /\ [][NextJoin]_vars /\ Fairness

\* the two variants' window steps side by side: rl.w[1] holds the locals of the root
\* variant's udp_flood_worker, rl.w[2] those of the no-root variant's, for the same
\* rate and the same passes at the same times
AsVariant(c, v) == [c EXCEPT !.variant = v]

\* rates from 0 on; the variant of the configuration plays no part
WindowConfigs ==
    { Config("root", TRUE, TRUE, <<"udp">>, 1, 64, pps, 0, TRUE) : pps \in 0..2 }

InitWindow ==
    \E c \in WindowConfigs :
        /\ InitMain(c)
        /\ rl = [RateInit(c) EXCEPT
                    !.w = [i \in 1..2 |-> [wake |-> 0, packets_sent |-> 0,
                                           last_rate_check |-> 0, sleep |-> 0]]]

\* milliseconds between a pass and the next: none, less than the window, the window,
\* more than the window
WindowGaps == {0, 400, 600, 1000, 1500}

\* a pass of either loop d milliseconds after the last: packets_sent += 1, then the
\* rate check of the variant
WindowPass(d) ==
    /\ rl.attempts < MaxWindowPasses
    /\ rl.t + d <= RateHorizonMs
    /\ LET t == rl.t + d
           after(i, v) ==
               LET chk == WindowCheck(AsVariant(cfg, v), rl.w[i].packets_sent + 1,
                                      rl.w[i].last_rate_check, t)
               IN [wake |-> t + chk.sleep, packets_sent |-> chk.packets_sent,
                   last_rate_check |-> chk.last_rate_check, sleep |-> chk.sleep]
       IN rl' = [rl EXCEPT !.t = t, !.attempts = @ + 1,
                           !.w = <<after(1, "root"), after(2, "noroot")>>]
    /\ UNCHANGED <<cfg, pc, validated, exit_status, answer, running, stats, threads, wk,
                   sp, jn, wake, pending, report, mon, sigs, now, hist>>

NextWindow == \E d \in WindowGaps : WindowPass(d)

SpecWindow == InitWindow /\ [][NextWindow]_vars

----------------------------------------------------------------------------
(* Claims *)

Yes == <<"y", "e", "s">>

\* the test types of the variant's fixed enumeration
Enumeration(c) == IF c.variant = "root" THEN Range(RootTypes) ELSE Range(NoRootTypes)

InRange(c) ==
    /\ c.thread_count \in 1..1000
    /\ c.packet_size \in 1..65507
    /\ c.packets_per_second >= 0
    /\ c.test_types # <<>>
    /\ \A i \in 1..Len(c.test_types) : c.test_types[i] \in Enumeration(c)

SpawnDone == pc \in {"wait", "stop", "join", "report", "stopped"}

AllWorkersExited == wk # <<>> /\ \A i \in Workers : wk[i].prog = "exited"

\* C11: with rate R > 0 and W workers of one test type that sleep 1/(R*W) s after each
\* attempt (no attempt fails), the attempts the W workers make in a window of 5 s are
\* at most 5*R*W*(1 + e); e is taken as 0.1.
C11_RateBound ==
    (rl.failed = 0 /\ rl.t <= 5000) =>
        rl.attempts * 10 <= 5 * cfg.packets_per_second * cfg.thread_count * 11

\* C1: validate_config returns True exactly for the configurations with thread_count
\* in 1..1000, packet_size in 1..65507, packets_per_second >= 0 and a non-empty list
\* of test types of the variant's enumeration; the two variants give the same result
\* on every configuration whose test types they both know or both lack.
C1_ValidateDecides ==
    /\ pc # "validate" => (validated <=> InRange(cfg))
    /\ (\A i \in 1..Len(cfg.test_types) :
            cfg.test_types[i] \in Range(RootTypes) <=> cfg.test_types[i] \in Range(NoRootTypes))
          => validate_config_root(cfg) = validate_config_noroot(cfg)

C1_Witness ==
    /\ pc = "construct" /\ validated
    /\ cfg.thread_count = 1000 /\ cfg.packet_size = 65507 /\ cfg.packets_per_second = 0

\* C2: a worker thread exists, or the spawn loop is running, only when validate_config
\* returned True for the configuration, which is then in range.
C2_WorkersOnlyIfValidated ==
    (wk # <<>> \/ threads # <<>> \/ pc = "spawn") => (validated /\ InRange(cfg))

C2_Witness == wk # <<>> /\ validated /\ \E i \in Workers : wk[i].prog = "loop"

\* C3: no step makes the stored value of packets_sent, bytes_sent, connections_made
\* or errors smaller than it was.
C3_CountersMonotone == [][\A k \in Counters : stats'[k] >= stats[k]]_vars

\* C4: no lost update: once all workers have exited, each counter equals the sum of
\* the amounts the workers added to it.
C4_NoLostUpdate == AllWorkersExited => \A k \in Counters : stats[k] = hist.issued[k]

\* C5: after stop_test has returned no counter of the shared stats changes.
C5_FrozenAfterStop ==
    [][hist.stop_returned => \A k \in Counters : stats'[k] = stats[k]]_vars

\* C6: the totals stop_test read for the final report include every increment a worker
\* issued before observing the cleared flag (a worker issues none after observing it).
C6_ReportIncludesAll ==
    hist.stop_returned =>
        \A i \in 1..Len(ReportFields(cfg)) :
            report.vals[ReportFields(cfg)[i]] = hist.issued[ReportFields(cfg)[i]]

\* C7: with duration D > 0 and no interrupt, the time from running = True to the end
\* of stop_test's join loop is at least D and at most D + 2.
C7_RunTimeBound ==
    (hist.join_end # -1 /\ cfg.duration > 0 /\ sigs = <<>>) =>
        /\ hist.join_end - stats.start_time >= cfg.duration
        /\ hist.join_end - stats.start_time <= cfg.duration + JOIN_TIMEOUT

\* C8: when the prompt is shown and the answer is not yes in any letter case,
\* start_test does nothing: running stays False, start_time stays 0, no worker and no
\* monitor thread exists and stop_test is not invoked; with verbose set the prompt is
\* not shown and, unless interrupted before, the run is started.
C8_DeclinedIsNoOp ==
    /\ (answer.asked /\ Lower(answer.text) # Yes) =>
          /\ ~running /\ stats.start_time = 0
          /\ wk = <<>> /\ threads = <<>> /\ mon.pc = "none"
          /\ ~hist.stop_called /\ report.read = 0
    /\ answer.asked => ~cfg.verbose
    /\ (cfg.verbose /\ pc \notin {"validate", "construct", "confirm"}
          /\ exit_status # 1 /\ (sigs = <<>> \/ sigs[1] # "confirm"))
          => stats.start_time > 0

C8_Witness ==
    /\ answer.asked /\ answer.text = <<"y", "e", "s", " ">>
    /\ pc = "exited" /\ exit_status = 0 /\ ~running

\* C9: when the spawn loop of a validated configuration is over, self.threads holds
\* len(test_types) * thread_count threads, one per (test type entry, thread index)
\* pair in order, each with the target of its test type and with its own thread_id,
\* and the threads created are exactly those recorded.
C9_OneWorkerPerPair ==
    /\ Len(wk) = Len(threads)
    /\ SpawnDone =>
          /\ Len(threads) = Len(cfg.test_types) * cfg.thread_count
          /\ \A k \in 1..Len(threads) :
                /\ threads[k] = k - 1
                /\ wk[k].type = cfg.test_types[((k - 1) \div cfg.thread_count) + 1]

C9_Witness ==
    /\ pc = "wait" /\ Len(threads) = 4 /\ Len(cfg.test_types) = 2 /\ cfg.thread_count = 2

\* C10: a SIGINT delivered during the controller's wait (and none after it) ends the
\* process with status 0 only after the flag was cleared, every recorded worker was
\* joined, each join lasting 2 s at most, and the final report was produced.
C10_InterruptStopsCleanly ==
    /\ (sigs = <<"wait">> /\ ~Alive) =>
          /\ exit_status = 0
          /\ ~running
          /\ hist.joined = threads
          /\ report.read = ReportSteps(cfg)
          /\ hist.stop_returned
    /\ sigs = <<"wait">> => (pending /\ pc \notin {"wait", "spawn", "confirm"})
    /\ pc = "join" => now <= jn.start + JOIN_TIMEOUT

C10_Witness ==
    /\ sigs = <<"wait">> /\ ~Alive /\ cfg.duration = 0
    /\ \E i \in Workers : wk[i].n > 0

\* the worker is in the time.sleep of the rate-control statement
AtRateSleep(w) == InScript(w) /\ CurOp(w).name = "rate_sleep"

\* the passes of a loop in which the attempt succeeds
SuccessProgs ==
    {"udp", "tcp_syn", "icmp", "system_ping", "send_udp_packet", "send_tcp_syn_packet",
     "send_icmp_packet", "tcp_connect", "ping", "http", "send_tcp_connection", "send_ping",
     "send_http_request"}

C13_ConsistentSnapshot == ~hist.mon_torn /\ ~hist.report_torn

\* C14: the final report's success ratio is (packets_sent - errors) / packets_sent when
\* the packets_sent it read is positive and "N/A" when it is 0; the division is never
\* evaluated with a divisor of 0, and not before the report.
C14_SuccessRatio ==
    /\ report.success.divided => report.success.den # 0
    /\ report.read < ReportSteps(cfg) => report.success = NoSuccessRate
    /\ report.read = ReportSteps(cfg) =>
          /\ report.vals.packets_sent > 0 =>
                /\ report.success.divided
                /\ report.success.den = report.vals.packets_sent
                /\ report.success.num = report.vals.packets_sent - report.success.errors
          /\ report.vals.packets_sent = 0 => ~report.success.divided

C14_Witness ==
    /\ pc = "stopped" /\ report.read = ReportSteps(cfg)
    /\ report.vals.packets_sent = 0 /\ ~report.success.divided
    /\ report.vals.errors > 0

NoScapy == cfg.variant = "root" /\ ~cfg.scapy

\* C15: in a run of the root variant without scapy, no pass of mixed_protocol_worker
\* calls send_tcp_syn_packet or send_icmp_packet or is inside scapy's send, whatever
\* random.choice returns.
C15_MixedSkipsUnavailable ==
    NoScapy =>
        \A i \in Workers :
            wk[i].type = "mixed" =>
                /\ wk[i].prog \notin {"send_tcp_syn_packet", "send_icmp_packet"}
                /\ InScript(wk[i]) => CurOp(wk[i]).name # "send"

C15_Witness ==
    /\ NoScapy
    /\ \E i \in Workers :
          wk[i].type = "mixed" /\ wk[i].prog = "send_nothing" /\ wk[i].n = 2

\* the entries of test_types that ask for tcp_syn
SynEntries == {t \in 1..Len(cfg.test_types) : cfg.test_types[t] = "tcp_syn"}

SynWorkers == {i \in Workers : wk[i].type = "tcp_syn"}

\* C16 as stated: without scapy start_test creates and records no thread for tcp_syn.
C16_NoThreadForUnavailable == NoScapy => SynWorkers = {}

\* C16 as amended: without scapy start_test still creates, starts and records one
\* thread per (tcp_syn, index) pair, and each of them returns from
\* tcp_syn_flood_worker at once: it never enters the loop and makes no attempt.
C16_UnavailableReturnsAtOnce ==
    NoScapy =>
        /\ SpawnDone => Cardinality(SynWorkers) = Cardinality(SynEntries) * cfg.thread_count
        /\ \A i \in SynWorkers :
              /\ wk[i].prog \in {"start", "exited", "killed"}
              /\ wk[i].n = 0
              /\ i - 1 \in Range(threads)
        /\ SynWorkers = Workers => \A k \in Counters : stats[k] = 0

C16_Witness ==
    /\ NoScapy /\ pc = "wait" /\ running
    /\ Cardinality(SynWorkers) = 4
    /\ \A i \in SynWorkers : wk[i].prog = "exited"

\* C17: without scapy a thread of icmp_flood_worker runs system_ping_worker's loop and
\* nothing else: it is never in the raw echo-request pass, it begins a ping only
\* after reading running as True at the top of the loop, and it ends only after
\* reading running as False there.
C17_IcmpFallsBack ==
    [][NoScapy =>
          \A i \in Workers :
              wk[i].type = "icmp" =>
                  /\ wk'[i].prog \in {"start", "loop", "system_ping", "system_ping_err",
                                      "exited", "killed"}
                  /\ (wk'[i].prog = "system_ping" /\ wk[i].prog # "system_ping")
                        => (wk[i].prog = "loop" /\ running)
                  /\ (wk'[i].prog = "exited" /\ wk[i].prog # "exited")
                        => (wk[i].prog = "loop" /\ ~running)]_vars

C17_Witness ==
    /\ NoScapy
    /\ \E i \in Workers :
          wk[i].type = "icmp" /\ wk[i].prog = "system_ping" /\ wk[i].n = 2

\* C18: an attempt that fails inside the loop does not end the worker: a worker
\* leaves its loop only when it reads running as False at the top of the loop, or
\* never enters it (its setup failed, or tcp_syn_flood_worker returned at once).
C18_ErrorsNotFatal ==
    [][\A i \in Workers :
          (wk'[i].prog = "exited" /\ wk[i].prog # "exited") =>
              \/ wk[i].prog = "loop" /\ ~running
              \/ wk[i].prog \in {"start", "crash"} /\ wk[i].n = 0]_vars

\* C19: a worker whose setup fails (socket.socket raises) adds 1 to errors once and
\* ends, having made no attempt; its steps leave the running flag, the controller's
\* position and wait, and every other worker as they were.
C19_SetupFailureIsLocal ==
    [][\A i \in Workers :
          (wk[i].prog = "crash" \/ (wk[i].prog = "start" /\ wk'[i].prog = "crash")) =>
              /\ wk'[i].prog \in {"crash", "exited", "killed"}
              /\ wk'[i].n = 0
              /\ (wk'[i] # wk[i] /\ wk'[i].prog # "killed") =>
                    /\ wk'[i].prog = "exited" =>
                          hist'.issued = [hist.issued EXCEPT !["errors"] = @ + 1]
                    /\ wk'[i].prog = "crash" => hist'.issued = hist.issued
                    /\ running' = running /\ pc' = pc /\ wake' = wake /\ mon' = mon
                    /\ \A j \in Workers \ {i} : wk'[j] = wk[j]]_vars

C19_Witness ==
    /\ pc = "wait" /\ running /\ Len(wk) = 2
    /\ wk[1].prog = "exited" /\ wk[1].n = 0 /\ wk[1].type = "udp"
    /\ wk[2].n = 2 /\ wk[2].prog = "udp"
    /\ hist.issued.errors = 1

\* the run's phase: 0 Idle, 1 Running, 2 Stopping, 3 Stopped
PhaseNo ==
    IF running THEN 1
    ELSE IF hist.stop_returned THEN 3
    ELSE IF hist.stop_called THEN 2
    ELSE 0

\* C20: the phase only moves Idle -> Running -> Stopping -> Stopped, one step at a
\* time: running goes False -> True once, from Idle, and True -> False once, in
\* stop_test; the report is read only after a join of every recorded thread has
\* returned; Stopped is never left.
C20_Lifecycle ==
    [][/\ PhaseNo' \in {PhaseNo, PhaseNo + 1}
       /\ (running' /\ ~running) => (pc = "confirm" /\ stats.start_time = 0)
       /\ (~running' /\ running) => pc = "stop"
       /\ report'.read > 0 => hist'.joined = threads'
       /\ PhaseNo = 3 => (PhaseNo' = 3 /\ report' = report)]_vars

C20_Witness ==
    /\ pc = "stopped" /\ PhaseNo = 3 /\ hist.joined = threads /\ Len(threads) > 0
    /\ \E i \in Workers : InScript(wk[i])

\* C21: in a run with duration = 0 that no SIGINT has reached, once started, the
\* running flag is True, stop_test has not been invoked and the controller is in
\* start_test; a run with duration > 0 that waits and is not interrupted ends with
\* stop_test invoked and returned (Stopped).
C21_DurationDecides ==
    /\ []((cfg.duration = 0 /\ sigs = <<>> /\ stats.start_time > 0) =>
              (running /\ ~hist.stop_called /\ pc \in {"spawn", "wait"}))
    /\ ((cfg.duration > 0 /\ pc = "wait") ~>
              ((hist.stop_called /\ hist.stop_returned /\ ~running) \/ sigs # <<>>))

C21_Witness ==
    /\ cfg.duration = 2 /\ sigs = <<>>
    /\ pc = "stopped" /\ hist.stop_returned /\ report.elapsed >= 2

\* C22: when the attempt a UDP worker has just made brings its count in the current
\* window above packets_per_second and the window's second has not elapsed, the
\* worker sleeps in the window branch for the rest of the window, and the count and
\* the window start are reset.
C22_WindowSleeps ==
    [][\A i \in 1..Len(rl.w) :
          (/\ rl'.w[i] # rl.w[i] /\ rl'.failed = rl.failed
           /\ rl.w[i].packets_sent + 1 > cfg.packets_per_second
           /\ rl.t - rl.w[i].last_rate_check < 1000)
          => (/\ rl'.w[i].sleep = 1000 - (rl.t - rl.w[i].last_rate_check)
              /\ rl'.w[i].packets_sent = 0
              /\ rl'.w[i].last_rate_check = rl.t)]_vars

\* the window branch's time.sleep(sleep_time) is never called
WindowSleepDead == \A i \in 1..Len(rl.w) : rl.w[i].sleep = 0

\* C23: with packets_per_second > 0, a UDP worker that makes an attempt, whether
\* sendto returns or raises, makes its next attempt no sooner than
\* 1/(packets_per_second * thread_count) s later.
C23_DelayAfterEveryAttempt ==
    [][\A i \in 1..Len(rl.w) :
          (cfg.packets_per_second > 0 /\ rl'.w[i] # rl.w[i])
          => rl'.w[i].wake >= rl.t + RateDelayMs(cfg)]_vars

\* a pass of a worker's loop begins only with a read of running as True at the top
\* of the loop, one pass per read
PassOnlyAfterCheck ==
    [][\A i \in Workers :
          wk'[i].n # wk[i].n =>
              (running /\ wk[i].prog = "loop" /\ wk'[i].n = wk[i].n + 1)]_vars

\* C24: a worker begins a pass of its loop only by reading running as True, so once
\* the flag is cleared the pass a worker is in is the last attempt it makes; and
\* every worker that exists when the flag is cleared leaves its loop in the end.
C24_CooperativeCancel ==
    /\ PassOnlyAfterCheck
    /\ \A i \in LiveWorkers :
          (~running /\ i \in Workers) ~> (i \in Workers /\ wk[i].prog = "exited")

\* a SIGINT reached the controller inside stop_test (its handler raises SystemExit there)
StopInterrupted == \E k \in 1..Len(sigs) : sigs[k] \in {"join", "report"}

\* C25: stop_test, when no SIGINT cuts it short, ends with the final report whatever
\* the workers do: it joins the recorded threads in order, each once, no join lasts
\* more than 2 s, the report follows the last join, and no thread is joined after
\* stop_test has returned.
C25_StopTerminates ==
    /\ [](/\ Len(hist.joined) <= Len(threads)
          /\ hist.joined = SubSeq(threads, 1, Len(hist.joined))
          /\ pc = "join" => (Len(hist.joined) = jn.j - 1 /\ now <= jn.start + JOIN_TIMEOUT)
          /\ hist.stop_returned =>
                (hist.joined = threads /\ report.read = ReportSteps(cfg)))
    /\ [][hist.stop_returned => hist'.joined = hist.joined]_vars
    /\ (hist.stop_called ~> (hist.stop_returned \/ StopInterrupted))

C25_Witness ==
    /\ pc = "stopped" /\ sigs = <<>> /\ hist.stop_returned
    /\ Len(threads) = 1 /\ hist.joined = threads
    /\ InScript(wk[1]) /\ CurOp(wk[1]).k = "call"
    /\ hist.join_end = wake + JOIN_TIMEOUT

\* the passes of a loop in which the attempt does not deliver: the send raises, the
\* connection fails or connect_ex returns non-zero, the send would block, the call
\* times out
FailProgs ==
    {"overflow", "udp_err", "udp_again", "tcp_syn_err", "icmp_err", "system_ping_err",
     "send_err", "tcp_refused", "tcp_err", "ping_timeout", "ping_err", "http_err",
     "send_tcp_refused"}

\* what the pass worker i ends with this step has added to counter c
PassGot(i, c) == wk[i].got[c] + (hist'.issued[c] - hist.issued[c])

\* C26: when a pass of a worker's loop ends, a pass whose attempt did not deliver has
\* added exactly 1 to errors and nothing to packets_sent and bytes_sent, and a pass
\* whose attempt succeeded has added exactly 1 to packets_sent and nothing to errors.
C26_AttemptsAccounted ==
    [][\A i \in Workers :
          (InScript(wk[i]) /\ wk'[i].prog \in {"loop", "exited"}) =>
              /\ wk[i].prog \in FailProgs =>
                    /\ PassGot(i, "errors") = 1
                    /\ PassGot(i, "packets_sent") = 0
                    /\ PassGot(i, "bytes_sent") = 0
              /\ wk[i].prog \in SuccessProgs =>
                    /\ PassGot(i, "packets_sent") = 1
                    /\ PassGot(i, "errors") = 0]_vars

\* the divisor of the per-attempt delay 1.0 / packets_per_second / thread_count
DelayDivisor(c) == c.packets_per_second * c.thread_count

\* C27: no division is evaluated with a divisor of 0: a worker is in a rate-control
\* sleep only with packets_per_second > 0 and thread_count >= 1, or in the fixed pause
\* that divides nothing; the monitor's and the final report's divisions by elapsed
\* are evaluated only with elapsed > 0, and the success ratio only with a divisor > 0.
C27_NoDivisionByZero ==
    /\ \A i \in Workers :
          AtRateSleep(wk[i]) =>
              \/ /\ cfg.packets_per_second > 0 /\ cfg.thread_count >= 1
                 /\ DelayDivisor(cfg) > 0
                 /\ CurOp(wk[i]).ms = 1000 \div DelayDivisor(cfg)
              \/ cfg.packets_per_second = 0 /\ CurOp(wk[i]).ms = 10
    /\ mon.rate.divided => mon.rate.den > 0
    /\ report.avg.divided => report.avg.den > 0
    /\ report.success.divided => report.success.den > 0
    /\ mon.pc = "sample" => (mon.rate.divided <=> now - stats.start_time > 0)
    /\ report.read = ReportSteps(cfg) => (report.avg.divided <=> report.elapsed > 0)

C27_Witness ==
    /\ pc = "stopped" /\ report.read = ReportSteps(cfg)
    /\ report.elapsed = 0 /\ ~report.avg.divided
    /\ cfg.packets_per_second > 0
    /\ \E i \in Workers : wk[i].n > 0

\* C28: a worker that has ended holds no socket it created and did not close, and a
\* worker that makes a socket per attempt holds none between two attempts, whichever
\* way the attempt went.
C28_SocketsReleased ==
    \A i \in Workers :
        /\ wk[i].prog = "exited" => wk[i].socks = 0
        /\ (wk[i].prog = "loop" /\ wk[i].type \notin ReusedSocket) => wk[i].socks = 0

\* the same for the passes in which nothing raises: these close what they create
SocketsReleasedOnSuccess ==
    \A i \in Workers :
        (/\ wk[i].prog = "exited" \/ (wk[i].prog = "loop" /\ wk[i].type \notin ReusedSocket)
         /\ hist.issued.errors = 0)
        => wk[i].socks = 0

\* in a run with one UDP worker and nothing else, between two attempts of the worker
\* bytes_sent = packets_sent * packet_size
SingleUdpBytes ==
    (cfg.test_types = <<"udp">> /\ cfg.thread_count = 1 /\ Len(wk) = 1
        /\ wk[1].prog = "loop")
    => stats.bytes_sent = stats.packets_sent * cfg.packet_size

\* the pass worker i ends with this step went through send_udp_packet
EndsDatagramPass(i) == wk[i].prog = "send_udp_packet" /\ wk'[i].prog = "loop"

\* C29 as stated: SingleUdpBytes, and a pass of the no-root mixed worker through
\* send_udp_packet adds packet_size to bytes_sent for the datagram it adds to
\* packets_sent.
C29_BytesMatchPackets ==
    /\ []SingleUdpBytes
    /\ [][\A i \in Workers :
            (cfg.variant = "noroot" /\ EndsDatagramPass(i))
            => PassGot(i, "bytes_sent") = PassGot(i, "packets_sent") * cfg.packet_size]_vars

\* C29 as amended: SingleUdpBytes, and a pass through send_udp_packet adds one
\* datagram and its payload's length: packet_size in the root variant, packet_size
\* but 1024 at most in the no-root variant.
C29_BytesMatchPayload ==
    /\ []SingleUdpBytes
    /\ [][\A i \in Workers :
            EndsDatagramPass(i) =>
                /\ PassGot(i, "packets_sent") = 1
                /\ PassGot(i, "bytes_sent") =
                      IF cfg.variant = "noroot" /\ cfg.packet_size > 1024
                      THEN 1024 ELSE cfg.packet_size]_vars

C29_Witness ==
    /\ cfg.variant = "noroot" /\ cfg.packet_size = 2000
    /\ \E i \in Workers :
          /\ wk[i].prog = "send_udp_packet"
          /\ wk[i].got.packets_sent = 1 /\ wk[i].got.bytes_sent = 1024

\* the step is one of a worker thread: a worker's record changes, no thread is
\* created and the process does not end
IsWorkerStep == wk' # wk /\ Len(wk') = Len(wk) /\ exit_status' = exit_status

\* the step is one of the monitor thread
IsMonitorStep == mon' # mon /\ pc' = pc /\ exit_status' = exit_status

\* C30: running goes to True, and start_time is written, in one step of the
\* controller, once, before any worker or monitor thread exists; a step of a worker
\* or of the monitor leaves running, start_time and the threads list as they were; a
\* step of a worker changes that worker only, its socket included.
C30_ControllerOwnsFlag ==
    [][/\ (running' /\ ~running) =>
             /\ pc = "confirm" /\ wk = <<>> /\ threads = <<>> /\ mon.pc = "none"
             /\ stats.start_time = 0 /\ stats'.start_time = now
       /\ stats'.start_time # stats.start_time => (running' /\ ~running)
       /\ (IsWorkerStep \/ IsMonitorStep) =>
             /\ running' = running
             /\ stats'.start_time = stats.start_time
             /\ threads' = threads
       /\ IsWorkerStep =>
             \A i, j \in Workers : (wk'[i] # wk[i] /\ wk'[j] # wk[j]) => i = j
       /\ threads' # threads => (pc = "spawn" /\ running)]_vars

C30_Witness ==
    /\ pc = "wait" /\ running /\ stats.start_time = 1 /\ now = 2
    /\ mon.pc = "sample" /\ Len(wk) = 2
    /\ \A i \in Workers : wk[i].socks = 1 /\ wk[i].n > 0

\* the pass worker i ends with this step sent an echo request in icmp_flood_worker
EndsEchoPass(i) == wk[i].prog = "icmp" /\ wk'[i].prog = "loop"

\* C31: the echo-request unit of icmp_flood_worker has the configured total size: a
\* pass that sends one adds packet_size to bytes_sent (the unit's length), and the
\* payload's length packet_size - 28 is not negative.
C31_EchoUnitSize ==
    [][\A i \in Workers :
          EndsEchoPass(i) =>
              /\ PassGot(i, "bytes_sent") = cfg.packet_size
              /\ cfg.packet_size - ICMP_HEADER_LEN >= 0]_vars

\* what the code does: the unit has the headers' 28 bytes at least
EchoUnitAtLeastHeaders ==
    [][\A i \in Workers :
          EndsEchoPass(i) =>
              /\ PassGot(i, "packets_sent") = 1
              /\ PassGot(i, "bytes_sent") = IcmpPacketLen(cfg)
              /\ PassGot(i, "bytes_sent") >= ICMP_HEADER_LEN]_vars

\* the scripts that begin with connect_ex and count the session it establishes
ConnectProgs == {"tcp_connect", "send_tcp_connection"}

\* the scripts a pass is in after connect_ex gave a non-zero result or raised
ConnectFailedProgs == {"tcp_refused", "tcp_err", "send_tcp_refused"}

\* worker i is in connect_ex
AtConnect(i) ==
    /\ wk[i].prog \in ConnectProgs /\ wk[i].pos = 1
    /\ CurOp(wk[i]).k = "call" /\ CurOp(wk[i]).name = "connect_ex"

\* the step is worker i's `self.stats['connections_made'] += 1` being stored
StoresConnection(i) ==
    /\ InScript(wk[i]) /\ CurOp(wk[i]).k = "inc" /\ CurOp(wk[i]).c = "connections_made"
    /\ wk[i].reg # -1 /\ wk'[i] # wk[i]

\* C32: connections_made counts established sessions only.  Its value never exceeds
\* the increments issued for it; an increment is issued for it only by a worker whose
\* connect_ex of this attempt returned success, by 1 and once in the attempt; a
\* successful connect_ex is followed by that increment; and an attempt whose connect
\* failed ends without one.
C32_ConnectionsOnlyEstablished ==
    /\ [](stats.connections_made <= hist.issued.connections_made)
    /\ [][/\ hist'.issued.connections_made # hist.issued.connections_made =>
               /\ hist'.issued.connections_made = hist.issued.connections_made + 1
               /\ \E i \in Workers :
                     /\ StoresConnection(i)
                     /\ wk[i].prog \in ConnectProgs /\ wk[i].pos = 2
                     /\ wk[i].got.connections_made = 0
          /\ \A i \in Workers :
               /\ (AtConnect(i) /\ wk'[i].prog = wk[i].prog /\ wk'[i].pos = 2) =>
                     /\ CurOp(wk'[i]).k = "inc" /\ CurOp(wk'[i]).c = "connections_made"
                     /\ CurOp(wk'[i]).amts = {1}
               /\ (AtConnect(i) /\ wk'[i].prog \notin {wk[i].prog, "killed"}) =>
                     wk'[i].prog \in ConnectFailedProgs \cup {"send_err"}
               /\ (wk[i].prog \in ConnectFailedProgs \cup {"send_err"}
                       /\ wk'[i].prog = "loop") =>
                     PassGot(i, "connections_made") = 0
               /\ (wk[i].prog \in ConnectProgs \cup {"tcp_nosend"}
                       /\ wk'[i].prog = "loop") =>
                     PassGot(i, "connections_made") = 1]_vars

\* a worker whose first attempt connected and was counted is in a second attempt
\* whose connect was refused
C32_Witness ==
    /\ stats.connections_made = 1 /\ hist.issued.connections_made = 1
    /\ \E i \in Workers : wk[i].prog = "tcp_refused" /\ wk[i].n = 2

\* C33: once running was set True (start_time is written with it), the process ends
\* only with the flag False and the final report computed, whether start_test returned
\* or a SIGINT was delivered during the spawning, the wait or the joins.
C33_ExitClearsAndReports ==
    (~Alive /\ stats.start_time > 0) =>
        /\ ~running
        /\ report.read = ReportSteps(cfg)
        /\ hist.stop_returned

\* what the code does: it holds when no SIGINT came or the only one came in the wait
ExitClearsAndReportsFromWait ==
    (~Alive /\ stats.start_time > 0 /\ sigs \in {<<>>, <<"wait">>}) =>
        /\ ~running
        /\ report.read = ReportSteps(cfg)
        /\ hist.stop_returned

\* C34: in the final report the success ratio, when it is defined (packets_sent > 0),
\* lies in [0, 1]: the errors it subtracts are not more than the packets it divides by.
C34_SuccessRatioInUnit ==
    (hist.stop_returned /\ report.success.divided) =>
        /\ report.success.den = report.vals.packets_sent
        /\ report.success.errors <= report.success.den
        /\ report.success.num >= 0 /\ report.success.num <= report.success.den

\* what the code gives: the ratio is at most 1, since errors is not negative
SuccessRatioAtMostOne ==
    (hist.stop_returned /\ report.success.divided) =>
        /\ report.success.den > 0
        /\ report.success.num = report.success.den - report.success.errors
        /\ report.success.num <= report.success.den

\* C35: the window step of the root variant and that of the no-root variant give the
\* same sleep and the same reset of the window and of the count, for every rate from
\* 0 on, every count and every elapsed time: run side by side over the same passes,
\* their locals and their sleeps are equal after every pass.
C35_WindowStepsAgree ==
    /\ rl.w[1] = rl.w[2]
    /\ \A ps \in 0..MaxWindowPasses : \A e \in {0, 999, 1000, 1001, 2500} :
          WindowCheck(AsVariant(cfg, "root"), ps, rl.t, rl.t + e)
              = WindowCheck(AsVariant(cfg, "noroot"), ps, rl.t, rl.t + e)

\* rate 0: the root variant's test packets_sent > 0 holds where the no-root variant's
\* guard does not, in a window that was reset after more than a second
C35_Witness ==
    /\ cfg.packets_per_second = 0
    /\ rl.attempts = 3 /\ rl.t = 1500
    /\ rl.w[1].packets_sent = 0 /\ rl.w[1].last_rate_check = 1500
    /\ rl.w[2] = rl.w[1]

\* the monitor thread has ended: it left its loop, or the process ended with it
MonitorEnded == mon.pc \in {"exited", "killed"}

\* C36: the monitor thread is started once running is True and start_time is set, and
\* takes a sample only after reading the flag as True; the cleared flag stays cleared,
\* so after the clear it prints the sample it is in, if it is in one, and takes no
\* other; it then ends, at its next look at the flag (no later than its sleep of 1 s
\* ends) or with the process if that ends first; stop_test joins recorded workers
\* only, and a join leaves the monitor as it is.
C36_MonitorBoundedByRun ==
    /\ [](/\ mon.pc # "none" => stats.start_time > 0
          /\ (Alive /\ mon.pc = "check") => now <= mon.until
          /\ \A k \in 1..Len(hist.joined) : hist.joined[k] + 1 \in Workers)
    /\ [][/\ (mon.pc = "none" /\ mon'.pc # "none") =>
               (running /\ stats.start_time > 0 /\ threads' = threads)
          /\ (mon.pc = "check" /\ mon'.pc = "sample") => running
          /\ (~running /\ stats.start_time > 0) => ~running'
          /\ (~running /\ mon.pc = "check") => mon'.pc \in {"check", "exited", "killed"}
          /\ (mon.pc = "sample" /\ mon'.pc # "sample") => mon'.pc \in {"check", "killed"}
          /\ (mon.pc = "check" /\ mon'.pc = "check") => mon'.until <= mon.until
          /\ hist'.joined # hist.joined => mon' = mon]_vars
    /\ ((~running /\ stats.start_time > 0) ~> MonitorEnded)

\* stop_test has returned and the monitor, not waited for, still has the sample to
\* print that it began before the flag was cleared
C36_Witness ==
    /\ Alive /\ hist.stop_returned /\ ~running
    /\ hist.joined = threads /\ Len(threads) > 0
    /\ mon.pc = "sample"

====
